---------------------------- MODULE Spec2Model ----------------------------
(***************************************************************************)
(* Model of the ED50/TD50 pipeline: the gather pass (fetch_pubchem_data,   *)
(* fetch_chembl_data, clean_data, the CSV files written by                 *)
(* gather_and_clean_data), the run pass (load_data, create_visualizations, *)
(* create_dash_app) and the dashboard callbacks (display_page,             *)
(* update_graph, display_organism_data).                                   *)
(*                                                                         *)
(* Compound names and figure keys are sequences of one-character strings,  *)
(* so that f"{compound}_ed_td", str.split("_") and str.capitalize() are    *)
(* computed character by character.  Every other text is a TLA+ string.    *)
(* A Python/pandas cell value is a record [k, s, n]: None, NaN (pandas'    *)
(* null), a str (s) or a number (n).                                       *)
(***************************************************************************)
EXTENDS Integers, Sequences, FiniteSets, TLC

VARIABLES
    run_mode,        \* main's run_mode argument
    manifest,        \* compound_name column of the compound file, in row order
    info_files,      \* drug_info/{compound}_info.csv, per compound name
    data_files,      \* data/{compound}_activity_data.csv, per compound name
    pc,              \* position in main
    index,           \* position of the gather loop in the manifest
    activity_written, \* the activity_df the gather pass last wrote, per compound name
    data,            \* load_data's first result (an insertion-ordered dict)
    properties,      \* load_data's second result
    figures,         \* create_visualizations' result (an insertion-ordered dict)
    dropdown,        \* options of the compound-dropdown component
    pathname,        \* the url component's pathname
    page,            \* page-content children: the layout displayed
    selected,        \* value of the compound-dropdown component
    graph,           \* compound-graph figure
    drug_info,       \* drug-info children: the eight displayed lines
    organism_data,   \* organism-data children (the table's rows)
    bar_chart,       \* organism-bar-chart figure
    fetch_in,        \* the remote outcomes met by the two fetchers (FetchSpec)
    fetch_out        \* what each fetcher returned or raised (FetchSpec)

vars == <<run_mode, manifest, info_files, data_files, pc, index, activity_written, data,
          properties, figures, dropdown, pathname, page, selected, graph,
          drug_info, organism_data, bar_chart, fetch_in, fetch_out>>

-----------------------------------------------------------------------------
(* Bounds of the model                                                     *)

MaxCompounds == 2     \* rows of the compound file
MaxRows == 2          \* activity elements of one bioactivity document

-----------------------------------------------------------------------------
(* Python values                                                           *)

None == [k |-> "None", s |-> "", n |-> 0]
NaN == [k |-> "NaN", s |-> "", n |-> 0]
Str(t) == [k |-> "str", s |-> t, n |-> 0]
Num(i) == [k |-> "num", s |-> "", n |-> i]

\* pandas' isna: None and NaN are both null
IsNull(v) == v.k \in {"None", "NaN"}

\* dict.get(key) and dict.get(key, default); a dict is a function on its keys
Get(d, key) == IF key \in DOMAIN d THEN d[key] ELSE None
GetDefault(d, key, default) == IF key \in DOMAIN d THEN d[key] ELSE default

EmptyDict == << >>

\* an insertion-ordered dict is a sequence of [key, value] entries
Keys(od) == [j \in 1..Len(od) |-> od[j].key]
KeySet(od) == {od[j].key : j \in 1..Len(od)}
Lookup(od, key) == od[CHOOSE j \in 1..Len(od) : od[j].key = key].value
DictSet(od, key, value) ==
    IF key \in KeySet(od)
    THEN [j \in 1..Len(od) |->
            IF od[j].key = key THEN [key |-> key, value |-> value] ELSE od[j]]
    ELSE Append(od, [key |-> key, value |-> value])

-----------------------------------------------------------------------------
(* Text: compound names and figure keys, character by character            *)

Upper(c) == CASE c = "a" -> "A" [] c = "b" -> "B" [] OTHER -> c
Lower(c) == CASE c = "A" -> "a" [] c = "B" -> "b" [] OTHER -> c

\* str.capitalize(): first character upper-cased, the rest lower-cased
Capitalize(name) ==
    [j \in 1..Len(name) |-> IF j = 1 THEN Upper(name[j]) ELSE Lower(name[j])]

\* key.split("_")[0]: the text before the first underscore
RECURSIVE SplitFirst(_)
SplitFirst(key) ==
    IF key = << >> \/ Head(key) = "_" THEN << >>
    ELSE <<Head(key)>> \o SplitFirst(Tail(key))

\* f"{compound}_ed_td" and f"{compound}_distribution"
EdTdKey(compound) == compound \o <<"_", "e", "d", "_", "t", "d">>
DistributionKey(compound) ==
    compound \o <<"_", "d", "i", "s", "t", "r", "i", "b", "u", "t", "i", "o", "n">>

\* the compound names a compound file may hold
NamePool == {<<"a">>, <<"A">>, <<"a", "_", "b">>}

\* a name as it is written into a cell (the Drug field)
RECURSIVE Joined(_)
Joined(name) == IF name = << >> THEN "" ELSE Head(name) \o Joined(Tail(name))

-----------------------------------------------------------------------------
(* Exceptions: the classes an exception is an instance of                  *)

Bases(exc) ==
    CASE exc = "ConnectionError" -> {"ConnectionError", "RequestException", "OSError", "Exception"}
      [] exc = "HTTPError" -> {"HTTPError", "RequestException", "OSError", "Exception"}
      [] exc = "JSONDecodeError" -> {"JSONDecodeError", "RequestException", "ValueError", "Exception"}
      [] exc = "ParseError" -> {"ParseError", "SyntaxError", "Exception"}
      [] exc = "KeyError" -> {"KeyError", "LookupError", "Exception"}
      [] exc = "IndexError" -> {"IndexError", "LookupError", "Exception"}
      [] exc = "AttributeError" -> {"AttributeError", "Exception"}
      [] exc = "ParserError" -> {"ParserError", "ValueError", "Exception"}
      [] OTHER -> {exc}

\* a try statement's except clauses catch exc
Caught(exc, handlers) == \E h \in handlers : h \in Bases(exc)

\* what a call does: returns a value, or raises (raised names the class)
Returned(value) == [raised |-> "", value |-> value]
Raised(exc) == [raised |-> exc, value |-> << >>]

-----------------------------------------------------------------------------
(* fetch_pubchem_data                                                      *)

\* keys of the returned dict, and the PubChem property each is read from
DrugInfoFields ==
    {"Drug", "Molecular Formula", "Molecular Weight", "XLogP",
     "H-Bond Donor Count", "H-Bond Acceptor Count", "Exact Mass",
     "Topological Polar Surface Area (TPSA)"}

PubchemProperty(field) ==
    CASE field = "Molecular Formula" -> "MolecularFormula"
      [] field = "Molecular Weight" -> "MolecularWeight"
      [] field = "XLogP" -> "XLogP"
      [] field = "H-Bond Donor Count" -> "HBondDonorCount"
      [] field = "H-Bond Acceptor Count" -> "HBondAcceptorCount"
      [] field = "Exact Mass" -> "ExactMass"
      [] field = "Topological Polar Surface Area (TPSA)" -> "TPSA"
      [] OTHER -> ""

\* first rows of a property table: every property present, XLogP absent
FullInfo ==
    ("MolecularFormula" :> Str("C8H16O2")) @@ ("MolecularWeight" :> Str("144")) @@
    ("XLogP" :> Num(3)) @@ ("HBondDonorCount" :> Num(1)) @@
    ("HBondAcceptorCount" :> Num(2)) @@ ("ExactMass" :> Str("144")) @@
    ("TPSA" :> Num(37))
PartialInfo == [p \in DOMAIN FullInfo \ {"XLogP"} |-> FullInfo[p]]

\* outcomes of the remote call: kind is "ok" or the failure; for "ok",
\* table says whether the JSON holds PropertyTable.Properties, rows is that list
PubchemOutcomes ==
    {[kind |-> k, table |-> FALSE, rows |-> << >>] :
        k \in {"ConnectionError", "HTTPError", "JSONDecodeError", "ok"}}
    \cup {[kind |-> "ok", table |-> TRUE, rows |-> r] :
            r \in {<< >>, <<FullInfo>>, <<PartialInfo>>}}

\* the exception the try block raises on this outcome ("" when none)
PubchemException(outcome) ==
    CASE outcome.kind # "ok" -> outcome.kind          \* requests.get, raise_for_status, response.json
      [] outcome.kind = "ok" /\ ~outcome.table -> "KeyError"          \* data["PropertyTable"]
      [] outcome.kind = "ok" /\ outcome.table /\ outcome.rows = << >> -> "IndexError"   \* [0]
      [] OTHER -> ""

\* the except clauses without the last one
PubchemHandlersNoCatchAll == {"HTTPError", "RequestException"}

PubchemHandlers == {"HTTPError", "RequestException", "Exception"}

PubchemDict(drug_name, compound_info) ==
    [f \in DrugInfoFields |->
        IF f = "Drug" THEN Str(Joined(drug_name))
        ELSE Get(compound_info, PubchemProperty(f))]

fetch_pubchem_data(drug_name, outcome) ==
    LET exc == PubchemException(outcome) IN
    IF exc = "" THEN Returned(PubchemDict(drug_name, outcome.rows[1]))
    ELSE IF Caught(exc, PubchemHandlers) THEN Returned(EmptyDict)
    ELSE Raised(exc)

-----------------------------------------------------------------------------
(* fetch_chembl_data                                                       *)

Columns ==
    <<"activity_id", "assay_description", "standard_type", "standard_value",
      "standard_units", "target_organism", "target_pref_name">>
ColumnSet == {Columns[j] : j \in 1..Len(Columns)}
RequiredTags == {"activity_id", "assay_description", "standard_type"}
OptionalTags == ColumnSet \ RequiredTags

\* activity elements of a bioactivity document: sub-element tag -> its text
Activity(id, type, value, organism, pref_name) ==
    ("activity_id" :> Str(id)) @@ ("assay_description" :> Str("assay " \o id)) @@
    ("standard_type" :> Str(type)) @@ ("standard_value" :> value) @@
    ("standard_units" :> Str("mg.kg-1")) @@ ("target_organism" :> organism) @@
    ("target_pref_name" :> pref_name)
Without(element, tags) == [t \in DOMAIN element \ tags |-> element[t]]

\* every sub-element present; the target name is a text that the CSV reader
\* takes for a missing value
Ed50Activity == Activity("1", "ED50", Str("5"), Str("Mus musculus"), Str("NA"))
\* no target_organism and no target_pref_name sub-element
Td50Activity ==
    Without(Activity("2", "TD50", Str("50"), None, None),
            {"target_organism", "target_pref_name"})
\* another measurement kind, no standard_value and no standard_units
Ic50Activity ==
    Without(Activity("3", "IC50", None, Str("Mus musculus"), Str("Mus musculus")),
            {"standard_value", "standard_units"})
\* a required sub-element is absent
BrokenActivity ==
    Without(Activity("4", "ED50", Str("5"), Str("Mus musculus"), Str("Mus musculus")),
            {"assay_description"})

ActivityPool == {Ed50Activity, Td50Activity, Ic50Activity, BrokenActivity}

RECURSIVE SeqsUpTo(_, _)
SeqsUpTo(S, n) ==
    IF n = 0 THEN {<< >>}
    ELSE LET shorter == SeqsUpTo(S, n - 1) IN
         shorter \cup {Append(q, e) : q \in {t \in shorter : Len(t) = n - 1}, e \in S}

Documents == SeqsUpTo(ActivityPool, MaxRows)

ChemblOutcomes ==
    {[kind |-> k, doc |-> << >>] : k \in {"ConnectionError", "HTTPError", "ParseError"}}
    \cup {[kind |-> "ok", doc |-> d] : d \in Documents}

\* one activity element -> one entry; a required sub-element that is absent
\* makes activity.find(...) None, and .text on it an AttributeError
EntryRaises(activity) == ~(RequiredTags \subseteq DOMAIN activity)
\* an entry with keys for the sub-elements present only
EntryOfPresentTags(activity) == [t \in ColumnSet \cap DOMAIN activity |-> activity[t]]
Entry(activity) ==
    [t \in ColumnSet |-> IF t \in DOMAIN activity THEN activity[t] ELSE None]

ChemblException(outcome) ==
    CASE outcome.kind # "ok" -> outcome.kind         \* requests.get, raise_for_status, ET.fromstring
      [] outcome.kind = "ok" /\ (\E j \in 1..Len(outcome.doc) : EntryRaises(outcome.doc[j]))
            -> "AttributeError"
      [] OTHER -> ""

\* the except clauses without the last one
ChemblHandlersNamedOnly == {"HTTPError", "RequestException", "ParseError"}

ChemblHandlers == {"HTTPError", "RequestException", "ParseError", "Exception"}

fetch_chembl_data(outcome) ==
    LET exc == ChemblException(outcome) IN
    IF exc = ""
    THEN Returned([j \in 1..Len(outcome.doc) |-> Entry(outcome.doc[j])])
    ELSE IF Caught(exc, ChemblHandlers) THEN Returned(<< >>)
    ELSE Raised(exc)

-----------------------------------------------------------------------------
(* clean_data                                                              *)

\* a DataFrame: its columns in order and its rows (column -> cell)
EmptyFrame == [columns |-> << >>, rows |-> << >>]
IsEmpty(df) == df.rows = << >> \/ df.columns = << >>

clean_data(pubchem_data, chembl_data) ==
    [drug_info |-> [f \in DrugInfoFields |-> Get(pubchem_data, f)],
     activity_df |-> IF chembl_data # << >>
                     THEN [columns |-> Columns, rows |-> chembl_data]
                     ELSE EmptyFrame]

-----------------------------------------------------------------------------
(* CSV files: DataFrame.to_csv(index=False) and pd.read_csv                *)

Digit(d) ==
    CASE d = 0 -> "0" [] d = 1 -> "1" [] d = 2 -> "2" [] d = 3 -> "3" [] d = 4 -> "4"
      [] d = 5 -> "5" [] d = 6 -> "6" [] d = 7 -> "7" [] d = 8 -> "8" [] OTHER -> "9"

\* str(n) of a non-negative integer
RECURSIVE Decimal(_)
Decimal(i) == IF i < 10 THEN Digit(i) ELSE Decimal(i \div 10) \o Digit(i % 10)

\* the numbers whose numerals occur in the model's texts
Numbers == {1, 2, 3, 4, 5, 37, 50, 144}
IsNumeral(text) == \E i \in Numbers : Decimal(i) = text
ParseNumber(text) == CHOOSE i \in Numbers : Decimal(i) = text

\* texts pd.read_csv takes for missing values (its default na_values)
NaValues ==
    {"", "#N/A", "#N/A N/A", "#NA", "-1.#IND", "-1.#QNAN", "-NaN", "-nan",
     "1.#IND", "1.#QNAN", "<NA>", "N/A", "NA", "NULL", "NaN", "None", "n/a",
     "nan", "null"}

\* a file on disk: absent, not parsable as CSV, or a header and lines of text cells
Absent == [state |-> "absent", header |-> << >>, lines |-> << >>]
Malformed == [state |-> "malformed", header |-> << >>, lines |-> << >>]
Exists(file) == file.state # "absent"

\* to_csv writes a null as the empty field, a str as its text, a number as its numeral
CellText(v) ==
    CASE IsNull(v) -> ""
      [] v.k = "str" -> v.s
      [] OTHER -> Decimal(v.n)

to_csv(df) ==
    [state |-> "csv", header |-> df.columns,
     lines |-> [j \in 1..Len(df.rows) |->
                  [c \in DOMAIN df.rows[j] |-> CellText(df.rows[j][c])]]]

\* read_csv infers each column: numeric when every cell that is not a
\* missing-value text is a numeral, text otherwise
ColumnIsNumeric(file, c) ==
    \A j \in 1..Len(file.lines) :
        file.lines[j][c] \in NaValues \/ IsNumeral(file.lines[j][c])

ParsedCell(file, j, c) ==
    LET text == file.lines[j][c] IN
    IF text \in NaValues THEN NaN
    ELSE IF ColumnIsNumeric(file, c) THEN Num(ParseNumber(text))
    ELSE Str(text)

read_csv(file) ==
    IF file.state = "malformed" THEN Raised("ParserError")
    ELSE Returned([columns |-> file.header,
                   rows |-> [j \in 1..Len(file.lines) |->
                               [c \in DOMAIN file.lines[j] |-> ParsedCell(file, j, c)]]])

-----------------------------------------------------------------------------
(* load_data                                                               *)

\* the list of metrics with TD50 left out
metricsEd50Only == {"ED50"}

metrics == {"ED50", "TD50"}

HasColumn(df, c) == \E j \in 1..Len(df.columns) : df.columns[j] = c

\* df[df["standard_type"].isin(metrics)]
IsMetricRow(row) == row["standard_type"].k = "str" /\ row["standard_type"].s \in metrics
FilterMetrics(df) == [columns |-> df.columns, rows |-> SelectSeq(df.rows, IsMetricRow)]

\* an except clause for the parser's error only
LoadHandlersParserOnly == {"ParserError"}

LoadHandlers == {"Exception"}

\* if os.path.exists(info_filepath): properties[compound] = read_csv(...).iloc[0].to_dict()
LoadInfo(info_file, compound, d, p) ==
    IF ~Exists(info_file) THEN [raised |-> "", data |-> d, properties |-> p]
    ELSE LET info == read_csv(info_file) IN
         IF info.raised # "" THEN [raised |-> info.raised, data |-> d, properties |-> p]
         ELSE IF info.value.rows = << >>       \* .iloc[0] of no rows
         THEN [raised |-> "IndexError", data |-> d, properties |-> p]
         ELSE [raised |-> "", data |-> d,
               properties |-> DictSet(p, compound, info.value.rows[1])]

\* the try body with the DrugInfo loaded whether or not the filtered table is empty
LoadBodyInfoAlways(file, info_file, compound, d, p) ==
    LET read == read_csv(file) IN
    IF read.raised # "" THEN [raised |-> read.raised, data |-> d, properties |-> p]
    ELSE IF ~HasColumn(read.value, "standard_type")
    THEN [raised |-> "KeyError", data |-> d, properties |-> p]
    ELSE LET df_filtered == FilterMetrics(read.value) IN
         IF IsEmpty(df_filtered) THEN LoadInfo(info_file, compound, d, p)
         ELSE LoadInfo(info_file, compound, DictSet(d, compound, df_filtered), p)

\* the body of the try statement for one compound, from the dicts so far:
\* [raised, data, properties], the dicts as they are when the body ends or raises
LoadBody(file, info_file, compound, d, p) ==
    LET read == read_csv(file) IN
    IF read.raised # "" THEN [raised |-> read.raised, data |-> d, properties |-> p]
    ELSE IF ~HasColumn(read.value, "standard_type")
    THEN [raised |-> "KeyError", data |-> d, properties |-> p]
    ELSE LET df_filtered == FilterMetrics(read.value) IN
         IF IsEmpty(df_filtered) THEN [raised |-> "", data |-> d, properties |-> p]
         ELSE LoadInfo(info_file, compound, DictSet(d, compound, df_filtered), p)

\* one iteration of the loop over the compounds
LoadOne(dfiles, ifiles, compound, acc) ==
    IF acc.raised # "" THEN acc
    ELSE IF ~Exists(dfiles[compound]) THEN acc
    ELSE LET body == LoadBody(dfiles[compound], ifiles[compound], compound,
                              acc.data, acc.properties) IN
         IF body.raised = "" \/ Caught(body.raised, LoadHandlers)
         THEN [raised |-> "", data |-> body.data, properties |-> body.properties]
         ELSE body

RECURSIVE LoadFrom(_, _, _, _, _)
LoadFrom(dfiles, ifiles, compounds, j, acc) ==
    IF j > Len(compounds) THEN acc
    ELSE LoadFrom(dfiles, ifiles, compounds, j + 1,
                  LoadOne(dfiles, ifiles, compounds[j], acc))

load_data(dfiles, ifiles, compounds) ==
    LoadFrom(dfiles, ifiles, compounds, 1,
             [raised |-> "", data |-> << >>, properties |-> << >>])

-----------------------------------------------------------------------------
(* create_visualizations                                                   *)

Column(df, c) == [j \in 1..Len(df.rows) |-> df.rows[j][c]]
InColumn(df, c, text) == \E j \in 1..Len(df.rows) : df.rows[j][c] = Str(text)
RowsOfType(df, metric) ==
    SelectSeq(df.rows, LAMBDA row : row["standard_type"] = Str(metric))

\* one scatter or box trace: the values and hover texts of one metric
Trace(df, metric) ==
    LET rows == RowsOfType(df, metric) IN
    [name |-> metric,
     values |-> [j \in 1..Len(rows) |-> rows[j]["standard_value"]],
     text |-> [j \in 1..Len(rows) |-> rows[j]["assay_description"]]]

Figure(type, compound, df) ==
    [type |-> type, title |-> Capitalize(compound),
     traces |-> <<Trace(df, "ED50"), Trace(df, "TD50")>>]

\* any(...) in the place of all(...)
HasEitherMetric(df) ==
    InColumn(df, "standard_type", "ED50") \/ InColumn(df, "standard_type", "TD50")

\* all(metric in df["standard_type"].values for metric in ["ED50", "TD50"])
HasBothMetrics(df) ==
    InColumn(df, "standard_type", "ED50") /\ InColumn(df, "standard_type", "TD50")

RECURSIVE VisualizeFrom(_, _, _)
VisualizeFrom(d, j, figs) ==
    IF j > Len(d) THEN figs
    ELSE LET compound == d[j].key
             df == d[j].value IN
         IF HasBothMetrics(df)
         THEN VisualizeFrom(d, j + 1,
                DictSet(DictSet(figs, EdTdKey(compound), Figure("scatter", compound, df)),
                        DistributionKey(compound), Figure("box", compound, df)))
         ELSE VisualizeFrom(d, j + 1, figs)

create_visualizations(d) == VisualizeFrom(d, 1, << >>)

-----------------------------------------------------------------------------
(* create_dash_app: the dropdown, and the callbacks                        *)

\* the options restricted to the keys that end in _ed_td
IsEdTdKey(key) == Len(key) >= 6 /\ key = EdTdKey(SubSeq(key, 1, Len(key) - 6))
DropdownOptionsEdTdOnly(figs) ==
    LET keys == SelectSeq(Keys(figs), IsEdTdKey) IN
    [j \in 1..Len(keys) |-> [label |-> Capitalize(SplitFirst(keys[j])), value |-> keys[j]]]

\* the options with the compound as their value
DropdownOptionsByCompound(figs) ==
    [j \in 1..Len(figs) |->
        [label |-> Capitalize(SplitFirst(figs[j].key)), value |-> SplitFirst(figs[j].key)]]

\* options=[{"label": f"{compound.capitalize()} - ED50 vs TD50", "value": key} ...]
DropdownOptions(figs) ==
    [j \in 1..Len(figs) |->
        [label |-> Capitalize(SplitFirst(figs[j].key)), value |-> figs[j].key]]

\* value=list(figures.keys())[0] if figures else None
NoSelection == << >>
DropdownDefault(figs) == IF figs # << >> THEN figs[1].key ELSE NoSelection

\* the comparison with the path misspelt
DisplayPageMisspelt(path) == IF path = "/organism" THEN "organism_layout" ELSE "home_layout"

display_page(path) == IF path = "/organisms" THEN "organism_layout" ELSE "home_layout"

\* f"...{info.get(field, 'N/A')}": the text a value is formatted as
Format(v) ==
    CASE v.k = "None" -> "None"
      [] v.k = "NaN" -> "nan"
      [] v.k = "str" -> v.s
      [] OTHER -> Decimal(v.n)

InfoText(info) == [f \in DrugInfoFields |-> Format(GetDefault(info, f, Str("N/A")))]

PropertiesGet(p, compound_name) ==
    IF compound_name \in KeySet(p) THEN Lookup(p, compound_name) ELSE EmptyDict

\* update_graph: the figure and the property panel, or the KeyError of figures[...]
update_graph(figs, p, selected_compound) ==
    IF selected_compound \notin KeySet(figs) THEN Raised("KeyError")
    ELSE Returned([figure |-> Lookup(figs, selected_compound),
                   info_text |-> InfoText(PropertiesGet(p, SplitFirst(selected_compound)))])

-----------------------------------------------------------------------------
(* display_organism_data                                                   *)

\* Series.dropna()
DropNa(col) == SelectSeq(col, LAMBDA v : ~IsNull(v))

\* the distinct values of a sequence, in order of first appearance
RECURSIVE Unique(_)
Unique(col) ==
    IF col = << >> THEN << >>
    ELSE LET rest == Unique(SubSeq(col, 1, Len(col) - 1))
             last == col[Len(col)] IN
         IF \E j \in 1..Len(rest) : rest[j] = last THEN rest ELSE Append(rest, last)

Occurrences(col, v) == Cardinality({j \in 1..Len(col) : col[j] = v})

\* sorted by count, largest first, equal counts in order of first appearance
RECURSIVE SortByCount(_)
SortByCount(pairs) ==
    IF pairs = << >> THEN << >>
    ELSE LET top == CHOOSE j \in 1..Len(pairs) :
                       /\ \A m \in 1..Len(pairs) : pairs[m].count <= pairs[j].count
                       /\ \A m \in 1..(j - 1) : pairs[m].count < pairs[j].count
         IN <<pairs[top]>> \o
            SortByCount(SubSeq(pairs, 1, top - 1) \o SubSeq(pairs, top + 1, Len(pairs)))

\* Series.value_counts(): one [value, count] per distinct value
value_counts(col) ==
    LET values == Unique(col) IN
    SortByCount([j \in 1..Len(values) |->
                   [value |-> values[j], count |-> Occurrences(col, values[j])]])

\* the counts of the column with its nulls kept
CountsWithNulls(df) == value_counts(Column(df, "target_organism"))

\* df["target_organism"].dropna().value_counts()
organism_counts(df) == value_counts(DropNa(Column(df, "target_organism")))

\* the rows one compound appends to organism_data
OrganismRows(compound, df) ==
    LET counts == organism_counts(df) IN
    [j \in 1..Len(counts) |->
        [Compound |-> Capitalize(compound), Organism |-> counts[j].value,
         TestCount |-> counts[j].count]]

RECURSIVE OrganismRowsFrom(_, _)
OrganismRowsFrom(d, j) ==
    IF j > Len(d) THEN << >>
    ELSE OrganismRows(d[j].key, d[j].value) \o OrganismRowsFrom(d, j + 1)

\* one bar trace per distinct Compound label of the table
BarTraces(rows) ==
    LET labels == Unique([j \in 1..Len(rows) |-> rows[j].Compound]) IN
    [m \in 1..Len(labels) |->
        LET mine == SelectSeq(rows, LAMBDA r : r.Compound = labels[m]) IN
        [name |-> labels[m],
         x |-> [j \in 1..Len(mine) |-> mine[j].Organism],
         y |-> [j \in 1..Len(mine) |-> mine[j].TestCount]]]

\* the table and the chart; with no row at all the DataFrame has no "Compound"
\* column and organism_df["Compound"] raises
display_organism_data(d) ==
    LET rows == OrganismRowsFrom(d, 1) IN
    IF rows = << >> THEN Raised("KeyError")
    ELSE Returned([table |-> rows, bar_chart |-> BarTraces(rows)])

-----------------------------------------------------------------------------
(* The files a run may find on disk                                        *)

DrugInfoColumns ==
    <<"Drug", "Molecular Formula", "Molecular Weight", "XLogP",
      "H-Bond Donor Count", "H-Bond Acceptor Count", "Exact Mass",
      "Topological Polar Surface Area (TPSA)">>

\* pd.DataFrame([drug_info])
InfoFrame(info) == [columns |-> DrugInfoColumns, rows |-> <<info>>]

\* pd.DataFrame(chembl_data) of a document's entries
ActivityFrame(doc) == clean_data(EmptyDict, fetch_chembl_data([kind |-> "ok", doc |-> doc]).value).activity_df

BothKindsDoc == <<Ed50Activity, Td50Activity>>
EdOnlyDoc == <<Ed50Activity>>
TwoOrganismsDoc ==
    <<Ed50Activity,
      Activity("5", "TD50", Str("50"), Str("Rattus norvegicus"), Str("Rattus norvegicus")),
      Activity("6", "TD50", Str("5"), Str("Rattus norvegicus"), Str("Rattus norvegicus"))>>

\* a CSV file without the standard_type column
NoTypeColumn ==
    [state |-> "csv", header |-> <<"activity_id">>, lines |-> <<[c \in {"activity_id"} |-> "1"]>>]

\* what a run that gathers nothing may find for one compound
PriorDataFiles ==
    {Absent, Malformed, NoTypeColumn,
     to_csv(ActivityFrame(BothKindsDoc)), to_csv(ActivityFrame(EdOnlyDoc)),
     to_csv(ActivityFrame(TwoOrganismsDoc))}

PriorInfoKinds == {"absent", "malformed", "full", "nulls"}
PriorInfoFile(kind, name) ==
    CASE kind = "absent" -> Absent
      [] kind = "malformed" -> Malformed
      [] kind = "full" -> to_csv(InfoFrame(clean_data(PubchemDict(name, FullInfo), << >>).drug_info))
      [] OTHER -> to_csv(InfoFrame(clean_data(EmptyDict, << >>).drug_info))

Names(compounds) == {compounds[j] : j \in 1..Len(compounds)}

-----------------------------------------------------------------------------
(* main                                                                    *)

RunModes == {"gather", "run", "gather-and-run"}
Paths == {"/", "/organisms", "/other"}

\* a callback output that no callback has set
Unset == [raised |-> "unset", value |-> << >>]

\* main is started in one of its run modes on a compound file of up to
\* MaxCompounds rows.  A run that gathers starts on an empty disk; a run that
\* only loads finds, for each listed compound, what an earlier gather pass or
\* anything else left there.
Init ==
    /\ run_mode \in RunModes
    /\ manifest \in SeqsUpTo(NamePool, MaxCompounds)
    /\ LET listed == IF run_mode = "run" THEN Names(manifest) ELSE {} IN
       \E kinds \in [listed -> PriorInfoKinds], files \in [listed -> PriorDataFiles] :
          /\ info_files = [name \in NamePool |->
                IF name \in listed THEN PriorInfoFile(kinds[name], name) ELSE Absent]
          /\ data_files = [name \in NamePool |->
                IF name \in listed THEN files[name] ELSE Absent]
    /\ pc = IF run_mode \in {"gather", "gather-and-run"} THEN "gather" ELSE "load"
    /\ index = 1
    /\ activity_written = [name \in NamePool |-> EmptyFrame]
    /\ data = << >>
    /\ properties = << >>
    /\ figures = << >>
    /\ dropdown = [options |-> << >>, value |-> NoSelection]
    /\ pathname = ""
    /\ page = ""
    /\ selected = NoSelection
    /\ graph = Unset
    /\ drug_info = Unset
    /\ organism_data = Unset
    /\ bar_chart = Unset
    /\ fetch_in = << >>
    /\ fetch_out = << >>

ui == <<pathname, page, selected, graph, drug_info, organism_data, bar_chart>>
harness == <<fetch_in, fetch_out>>

\* one iteration of gather_and_clean_data's loop, for the compound at index
GatherCompound ==
    /\ pc = "gather"
    /\ index <= Len(manifest)
    /\ \E pubchem \in PubchemOutcomes, chembl \in ChemblOutcomes :
          LET compound_name == manifest[index]
              pubchem_data == fetch_pubchem_data(compound_name, pubchem)
              chembl_data == fetch_chembl_data(chembl)
              cleaned == clean_data(pubchem_data.value, chembl_data.value)
          IN IF pubchem_data.raised # "" \/ chembl_data.raised # ""
             THEN /\ pc' = "raised"
                  /\ UNCHANGED <<info_files, data_files, index, activity_written>>
             ELSE /\ info_files' = [info_files EXCEPT
                                      ![compound_name] = to_csv(InfoFrame(cleaned.drug_info))]
                  /\ data_files' = IF ~IsEmpty(cleaned.activity_df)
                                   THEN [data_files EXCEPT
                                           ![compound_name] = to_csv(cleaned.activity_df)]
                                   ELSE data_files
                  /\ activity_written' = IF ~IsEmpty(cleaned.activity_df)
                                         THEN [activity_written EXCEPT
                                                 ![compound_name] = cleaned.activity_df]
                                         ELSE activity_written
                  /\ index' = index + 1
                  /\ pc' = pc
    /\ UNCHANGED <<run_mode, manifest, data, properties, figures, dropdown, ui, harness>>

\* the loop ends; main goes on to the run pass or returns
GatherDone ==
    /\ pc = "gather"
    /\ index > Len(manifest)
    /\ pc' = IF run_mode = "gather-and-run" THEN "load" ELSE "exit"
    /\ UNCHANGED <<run_mode, manifest, info_files, data_files, index, activity_written, data, properties,
                   figures, dropdown, ui, harness>>

LoadData ==
    /\ pc = "load"
    /\ LET loaded == load_data(data_files, info_files, manifest) IN
          /\ data' = loaded.data
          /\ properties' = loaded.properties
          /\ pc' = IF loaded.raised # "" THEN "raised"
                   ELSE IF loaded.data # << >> THEN "visualize" ELSE "exit"
    /\ UNCHANGED <<run_mode, manifest, info_files, data_files, index, activity_written, figures, dropdown,
                   ui, harness>>

CreateVisualizations ==
    /\ pc = "visualize"
    /\ figures' = create_visualizations(data)
    /\ pc' = IF figures' # << >> THEN "create_app" ELSE "exit"
    /\ UNCHANGED <<run_mode, manifest, info_files, data_files, index, activity_written, data, properties,
                   dropdown, ui, harness>>

CreateDashApp ==
    /\ pc = "create_app"
    /\ dropdown' = [options |-> DropdownOptions(figures), value |-> DropdownDefault(figures)]
    /\ pc' = "serving"
    /\ UNCHANGED <<run_mode, manifest, info_files, data_files, index, activity_written, data, properties,
                   figures, ui, harness>>

\* the outputs of update_graph for a dropdown value
GraphOutputs(value) ==
    LET out == update_graph(figures, properties, value) IN
    /\ graph' = IF out.raised # "" THEN out ELSE Returned(out.value.figure)
    /\ drug_info' = IF out.raised # "" THEN out ELSE Returned(out.value.info_text)

\* the pathname changes (a page load, a link, an address typed): display_page
\* renders a layout, and the callbacks of the components it brings fire
Navigate(path) ==
    /\ pc = "serving"
    /\ pathname' = path
    /\ page' = display_page(path)
    /\ IF page' = "home_layout"
       THEN /\ selected' = dropdown.value
            /\ GraphOutputs(dropdown.value)
            /\ organism_data' = Unset
            /\ bar_chart' = Unset
       ELSE /\ selected' = NoSelection
            /\ graph' = Unset
            /\ drug_info' = Unset
            /\ LET out == display_organism_data(data) IN
                  /\ organism_data' = IF out.raised # "" THEN out ELSE Returned(out.value.table)
                  /\ bar_chart' = IF out.raised # "" THEN out ELSE Returned(out.value.bar_chart)
    /\ UNCHANGED <<run_mode, manifest, info_files, data_files, pc, index, activity_written, data, properties,
                   figures, dropdown, harness>>

\* the user picks an option of the dropdown: update_graph
SelectCompound(key) ==
    /\ pc = "serving"
    /\ page = "home_layout"
    /\ \E j \in 1..Len(dropdown.options) : dropdown.options[j].value = key
    /\ selected' = key
    /\ GraphOutputs(key)
    /\ UNCHANGED <<run_mode, manifest, info_files, data_files, pc, index, activity_written, data, properties,
                   figures, dropdown, pathname, page, organism_data, bar_chart, harness>>

Next ==
    \/ GatherCompound
    \/ GatherDone
    \/ LoadData
    \/ CreateVisualizations
    \/ CreateDashApp
    \/ \E path \in Paths : Navigate(path)
    \/ \E j \in 1..Len(dropdown.options) : SelectCompound(dropdown.options[j].value)

Spec == Init /\ [][Next]_vars

-----------------------------------------------------------------------------
(* The fetchers on their own: every outcome of the two remote calls        *)

FetchInit ==
    /\ run_mode = "gather"
    /\ manifest \in {<<name>> : name \in NamePool}
    /\ info_files = [name \in NamePool |-> Absent]
    /\ data_files = [name \in NamePool |-> Absent]
    /\ pc = "fetch"
    /\ index = 1
    /\ activity_written = [name \in NamePool |-> EmptyFrame]
    /\ data = << >>
    /\ properties = << >>
    /\ figures = << >>
    /\ dropdown = [options |-> << >>, value |-> NoSelection]
    /\ pathname = ""
    /\ page = ""
    /\ selected = NoSelection
    /\ graph = Unset
    /\ drug_info = Unset
    /\ organism_data = Unset
    /\ bar_chart = Unset
    /\ fetch_in = [pubchem |-> << >>, chembl |-> << >>]
    /\ fetch_out = [pubchem |-> Unset, chembl |-> Unset]

pipeline == <<run_mode, manifest, info_files, data_files, pc, index, activity_written, data, properties,
              figures, dropdown, ui>>

FetchPubchem ==
    /\ pc = "fetch"
    /\ \E outcome \in PubchemOutcomes :
          /\ fetch_in' = [fetch_in EXCEPT !.pubchem = outcome]
          /\ fetch_out' = [fetch_out EXCEPT
                             !.pubchem = fetch_pubchem_data(manifest[index], outcome)]
    /\ UNCHANGED pipeline

FetchChembl ==
    /\ pc = "fetch"
    /\ \E outcome \in ChemblOutcomes :
          /\ fetch_in' = [fetch_in EXCEPT !.chembl = outcome]
          /\ fetch_out' = [fetch_out EXCEPT !.chembl = fetch_chembl_data(outcome)]
    /\ UNCHANGED pipeline

FetchNext == FetchPubchem \/ FetchChembl

FetchSpec == FetchInit /\ [][FetchNext]_vars

-----------------------------------------------------------------------------
(* The gather pass as it runs: the interpreter executes the loop's next    *)
(* iteration, and the statement after the loop, whenever there is one      *)

\* main started in a mode that gathers
GatherInit == run_mode \in {"gather", "gather-and-run"} /\ Init

\* gather_and_clean_data's loop and its end
GatherNext == GatherCompound \/ GatherDone

GatherSpec ==
    GatherInit /\ [][GatherNext]_vars /\ WF_vars(GatherCompound) /\ WF_vars(GatherDone)

-----------------------------------------------------------------------------
(* Positions of main that the claims speak about                           *)

\* load_data has returned
Loaded == pc \in {"visualize", "create_app", "serving"} \/ (pc = "exit" /\ run_mode # "gather")
\* create_visualizations has returned (it is called only with a non-empty mapping)
Visualized == pc \in {"create_app", "serving"} \/ (pc = "exit" /\ run_mode # "gather" /\ data # << >>)
Serving == pc = "serving"
HomeShown == Serving /\ page = "home_layout" /\ drug_info.raised = ""

\* a table has a row of the measurement kind
HasKind(df, kind) ==
    \E j \in 1..Len(df.rows) :
        df.rows[j]["standard_type"].k = "str" /\ df.rows[j]["standard_type"].s = kind

-----------------------------------------------------------------------------
(* C1: create_visualizations returns the keys {C}_ed_td and {C}_distribution *)
(* for compound C exactly when C's table has at least one ED50 row and at  *)
(* least one TD50 row, once each, and no other key.                        *)

WithBothKinds(d) ==
    {c \in KeySet(d) : HasKind(Lookup(d, c), "ED50") /\ HasKind(Lookup(d, c), "TD50")}

C1_FigureKeysIffBothKinds ==
    Visualized =>
        /\ KeySet(figures) =
              UNION {{EdTdKey(c), DistributionKey(c)} : c \in WithBothKinds(data)}
        /\ Len(figures) = 2 * Cardinality(WithBothKinds(data))

\* a mapping with a compound of both kinds and a compound of one kind only
C1_Witness ==
    /\ Visualized
    /\ \E c \in WithBothKinds(data) : EdTdKey(c) \in KeySet(figures)
    /\ \E c \in KeySet(data) : c \notin WithBothKinds(data)

-----------------------------------------------------------------------------
(* C2 (as amended): the fetchers never raise; on a network failure, a      *)
(* non-2xx status, a body that does not parse, a JSON body without         *)
(* PropertyTable.Properties[0], or an activity element without one of its  *)
(* three required sub-elements they return the empty dict / the empty      *)
(* list; a first property row that lacks some of the requested properties  *)
(* gives a dict of all eight keys with those properties None.              *)

Fetched(source) == fetch_out[source] # Unset

PubchemFailed(outcome) == outcome.kind # "ok" \/ ~outcome.table \/ outcome.rows = << >>
ChemblFailed(outcome) ==
    \/ outcome.kind # "ok"
    \/ \E j \in 1..Len(outcome.doc) :
          \E tag \in {"activity_id", "assay_description", "standard_type"} :
              tag \notin DOMAIN outcome.doc[j]

RequestedProperties ==
    {"MolecularFormula", "MolecularWeight", "XLogP", "HBondDonorCount",
     "HBondAcceptorCount", "ExactMass", "TPSA"}
LacksProperty(outcome) ==
    ~PubchemFailed(outcome) /\ ~(RequestedProperties \subseteq DOMAIN outcome.rows[1])

C2_FetchersNeverRaise ==
    /\ Fetched("pubchem") =>
          /\ fetch_out.pubchem.raised = ""
          /\ PubchemFailed(fetch_in.pubchem) => fetch_out.pubchem.value = << >>
          /\ ~PubchemFailed(fetch_in.pubchem) =>
                /\ DOMAIN fetch_out.pubchem.value = DrugInfoFields
                /\ \A f \in DrugInfoFields \ {"Drug"} :
                      (fetch_out.pubchem.value[f] = None)
                         <=> (PubchemProperty(f) \notin DOMAIN fetch_in.pubchem.rows[1])
    /\ Fetched("chembl") =>
          /\ fetch_out.chembl.raised = ""
          /\ ChemblFailed(fetch_in.chembl) => fetch_out.chembl.value = << >>

\* both fetchers have met a response that lacks what they index into
C2_Witness ==
    /\ Fetched("pubchem") /\ Fetched("chembl")
    /\ fetch_in.pubchem.kind = "ok" /\ ~fetch_in.pubchem.table
    /\ fetch_in.chembl.kind = "ok" /\ fetch_in.chembl.doc # << >> /\ ChemblFailed(fetch_in.chembl)
    /\ fetch_out.pubchem = Returned(<< >>)
    /\ fetch_out.chembl = Returned(<< >>)

\* C2 as stated: every listed outcome, a missing expected field included,
\* gives the empty result
C2_AsStated ==
    /\ Fetched("pubchem") =>
          /\ fetch_out.pubchem.raised = ""
          /\ (PubchemFailed(fetch_in.pubchem) \/ LacksProperty(fetch_in.pubchem))
                => fetch_out.pubchem.value = << >>
    /\ Fetched("chembl") =>
          /\ fetch_out.chembl.raised = ""
          /\ ChemblFailed(fetch_in.chembl) => fetch_out.chembl.value = << >>

-----------------------------------------------------------------------------
(* C3: load_data returns without raising; the activity mapping holds       *)
(* exactly the listed compounds whose file is present, loads and has a row *)
(* of kind ED50 or TD50; each mapped table is non-empty and holds only     *)
(* such rows; a compound that fails does not stop the later ones.          *)

\* the file, as text: a CSV with a standard_type column and an ED50 or TD50 line
LoadsWithMetricRow(file) ==
    /\ file.state = "csv"
    /\ \E j \in 1..Len(file.header) : file.header[j] = "standard_type"
    /\ \E j \in 1..Len(file.lines) : file.lines[j]["standard_type"] \in {"ED50", "TD50"}

C3_LoadDataSkipsAndFilters ==
    /\ pc # "raised"
    /\ Loaded =>
          /\ KeySet(data) = {c \in Names(manifest) : LoadsWithMetricRow(data_files[c])}
          /\ Len(data) = Cardinality(KeySet(data))
          /\ \A c \in KeySet(data) :
                LET df == Lookup(data, c) IN
                /\ df.rows # << >>
                /\ \A j \in 1..Len(df.rows) :
                      df.rows[j]["standard_type"] \in {Str("ED50"), Str("TD50")}
                /\ Len(df.rows) =
                      Cardinality({j \in 1..Len(data_files[c].lines) :
                          data_files[c].lines[j]["standard_type"] \in {"ED50", "TD50"}})

\* a compound whose file does not load is followed by one that is loaded
C3_Witness ==
    /\ Loaded
    /\ \E j, m \in 1..Len(manifest) :
          /\ j < m
          /\ data_files[manifest[j]].state = "malformed"
          /\ manifest[m] \in KeySet(data)

-----------------------------------------------------------------------------
(* C4 (as amended): load_data loads a compound's DrugInfo only together    *)
(* with its activity data: the properties mapping holds a listed compound, *)
(* with the first row of its info file, exactly when the compound is in    *)
(* the activity mapping and its info file is present and readable.         *)

InfoReadable(file) == file.state = "csv" /\ file.lines # << >>

\* a line of an info file as read_csv types it, cell by cell
InfoRowAsRead(file) ==
    [f \in DrugInfoFields |->
        LET text == file.lines[1][f] IN
        IF text \in NaValues THEN NaN
        ELSE IF IsNumeral(text) THEN Num(ParseNumber(text)) ELSE Str(text)]

C4_PropertiesOnlyWithActivity ==
    Loaded =>
        /\ KeySet(properties) =
              {c \in KeySet(data) : InfoReadable(info_files[c])}
        /\ \A c \in KeySet(properties) :
              Lookup(properties, c) = InfoRowAsRead(info_files[c])

\* an info file is loaded for one compound and left alone for another that
\* has no usable activity data
C4_Witness ==
    /\ Loaded
    /\ \E c \in KeySet(properties) : Lookup(properties, c)["Drug"] = Str(Joined(c))
    /\ \E c \in Names(manifest) : InfoReadable(info_files[c]) /\ c \notin KeySet(data)

\* C4 as stated: every listed compound with an info file is in the properties mapping
C4_AsStated ==
    Loaded =>
        \A c \in Names(manifest) :
            InfoReadable(info_files[c]) =>
                /\ c \in KeySet(properties)
                /\ Lookup(properties, c) = InfoRowAsRead(info_files[c])

-----------------------------------------------------------------------------
(* C5: in the home view's property panel each of the eight DrugInfo fields *)
(* is shown as "N/A" whenever that field is null or the compound has no    *)
(* DrugInfo, independently of the other fields.  The code shows a null     *)
(* field of a persisted DrugInfo as "nan".                                 *)

\* the DrugInfo update_graph looked up for the selected key
ShownInfo == PropertiesGet(properties, SplitFirst(selected))

C5_NullFieldsShownAsNA ==
    HomeShown =>
        \A f \in DrugInfoFields :
            (f \notin DOMAIN ShownInfo \/ IsNull(ShownInfo[f])) => drug_info.value[f] = "N/A"

-----------------------------------------------------------------------------
(* C6: selecting a figure key in the home view renders the DrugInfo of the *)
(* compound whose activity table the figure was built from, for every      *)
(* compound name, names with an underscore included.  The code recovers    *)
(* the compound as the text before the first underscore of the key.        *)

C6_PanelOfTheFiguresCompound ==
    HomeShown =>
        \A c \in KeySet(data) :
            selected \in {EdTdKey(c), DistributionKey(c)} =>
                drug_info.value = InfoText(PropertiesGet(properties, c))

-----------------------------------------------------------------------------
(* C7 (as amended): the home view's dropdown offers every figure key, the  *)
(* comparison-chart key and the distribution-chart key of each compound    *)
(* that has figures, in the order of the figure mapping, and its default   *)
(* value is the first of them: the comparison-chart key of the first       *)
(* loaded compound that has both kinds.                                    *)

FirstWithBothKinds(d) ==
    d[CHOOSE j \in 1..Len(d) :
        /\ d[j].key \in WithBothKinds(d)
        /\ \A m \in 1..(j - 1) : d[m].key \notin WithBothKinds(d)].key

OptionValues == [j \in 1..Len(dropdown.options) |-> dropdown.options[j].value]

C7_DropdownOffersEveryFigureKey ==
    Serving =>
        /\ OptionValues = Keys(figures)
        /\ Len(dropdown.options) = 2 * Cardinality(WithBothKinds(data))
        /\ \A c \in WithBothKinds(data) :
              \E j \in 1..(Len(OptionValues) - 1) :
                  OptionValues[j] = EdTdKey(c) /\ OptionValues[j + 1] = DistributionKey(c)
        /\ dropdown.value = EdTdKey(FirstWithBothKinds(data))

\* a dropdown over the figures of two compounds
C7_Witness ==
    /\ Serving
    /\ Len(dropdown.options) = 4
    /\ page = "home_layout" /\ selected = dropdown.value

\* C7 as stated: one option per compound that has figures, its comparison-chart key
C7_AsStated ==
    Serving =>
        /\ {OptionValues[j] : j \in 1..Len(OptionValues)} =
              {EdTdKey(c) : c \in WithBothKinds(data)}
        /\ Len(dropdown.options) = Cardinality(WithBothKinds(data))
        /\ dropdown.value = EdTdKey(FirstWithBothKinds(data))

-----------------------------------------------------------------------------
(* C8: the dashboard shows one of two views, and after any sequence of     *)
(* path changes and dropdown selections the view shown is the Organism     *)
(* view when the path is /organisms and the Home view otherwise.           *)

C8_ViewDeterminedByPath ==
    (Serving /\ page # "") =>
        /\ page \in {"home_layout", "organism_layout"}
        /\ (page = "organism_layout") <=> (pathname = "/organisms")

\* the Home view on a path other than / after a selection in the dropdown
C8_Witness ==
    /\ Serving
    /\ pathname = "/other"
    /\ page = "home_layout"
    /\ selected # dropdown.value

-----------------------------------------------------------------------------
(* C9: in the organism summary, the Test Count values of the rows a        *)
(* compound contributes add up to the number of rows of its in-memory      *)
(* table whose target organism is not null; the counts do not depend on    *)
(* the order of the table's rows, and every entry of the Organism view     *)
(* shows the same summary.  A compound's rows are the ones its table       *)
(* produced: one per distinct organism, after the rows of the compounds    *)
(* before it, under the label compound.capitalize().                       *)

RECURSIVE SumOf(_)
SumOf(numbers) == IF numbers = << >> THEN 0 ELSE Head(numbers) + SumOf(Tail(numbers))

NonNullOrganismRows(df) ==
    {j \in 1..Len(df.rows) : df.rows[j]["target_organism"].k \notin {"None", "NaN"}}
DistinctOrganisms(df) ==
    {df.rows[j]["target_organism"] : j \in NonNullOrganismRows(df)}

\* the rows of the displayed table that come from the m-th compound of data
RECURSIVE RowsBefore(_)
RowsBefore(m) ==
    IF m = 1 THEN 0
    ELSE RowsBefore(m - 1) + Cardinality(DistinctOrganisms(data[m - 1].value))
DisplayedBlock(m) ==
    SubSeq(organism_data.value, RowsBefore(m) + 1,
           RowsBefore(m) + Cardinality(DistinctOrganisms(data[m].value)))

\* a table with its rows in another order
Reordered(df, order) ==
    [columns |-> df.columns, rows |-> [j \in 1..Len(df.rows) |-> df.rows[order[j]]]]
CountsAsSet(rows) == {<<rows[j].Organism, rows[j].TestCount>> : j \in 1..Len(rows)}

OrganismShown == Serving /\ page = "organism_layout"

C9_TestCountsAddUp ==
    OrganismShown =>
        /\ organism_data.raised = "" =>
              /\ Len(organism_data.value) = RowsBefore(Len(data) + 1)
              /\ \A m \in 1..Len(data) :
                    LET block == DisplayedBlock(m)
                        df == data[m].value IN
                    /\ SumOf([j \in 1..Len(block) |-> block[j].TestCount])
                          = Cardinality(NonNullOrganismRows(df))
                    /\ \A j \in 1..Len(block) :
                          /\ block[j].Compound = Capitalize(data[m].key)
                          /\ block[j].TestCount =
                                Cardinality({r \in 1..Len(df.rows) :
                                    df.rows[r]["target_organism"] = block[j].Organism})
                    /\ {block[j].Organism : j \in 1..Len(block)} = DistinctOrganisms(df)
        \* no row at all: the callback raises and no summary is shown
        /\ organism_data.raised # "" =>
              \A m \in 1..Len(data) : NonNullOrganismRows(data[m].value) = {}
        /\ \A m \in 1..Len(data) :
              LET df == data[m].value IN
              \A order \in Permutations(1..Len(df.rows)) :
                  /\ CountsAsSet(OrganismRows(data[m].key, Reordered(df, order)))
                        = CountsAsSet(OrganismRows(data[m].key, df))
                  /\ SumOf([j \in 1..Len(organism_counts(Reordered(df, order))) |->
                              organism_counts(Reordered(df, order))[j].count])
                        = Cardinality(NonNullOrganismRows(df))

\* the summary of two compounds: one with a row whose organism is null, the
\* other with two organisms of different counts
C9_Witness ==
    /\ OrganismShown
    /\ organism_data.raised = ""
    /\ Len(data) = 2
    /\ \E m \in 1..Len(data) :
          /\ Len(data[m].value.rows) = 2
          /\ Cardinality(NonNullOrganismRows(data[m].value)) = 1
    /\ \E m \in 1..Len(data) :
          /\ Cardinality(DistinctOrganisms(data[m].value)) = 2
          /\ \E j \in 1..Len(organism_data.value) : organism_data.value[j].TestCount = 2

-----------------------------------------------------------------------------
(* C10 (as amended): an activity table written by the gather pass and      *)
(* reloaded by load_data comes back with its ED50/TD50 rows, all of them   *)
(* and in the same order, and each cell as pd.read_csv types the written   *)
(* text: null for a null cell and for a missing-value text such as "NA",   *)
(* otherwise the same text or, in a column read as numeric, the number     *)
(* that the text is the numeral of.  The measurement kind is unchanged.    *)

GatheredAndLoaded == Loaded /\ run_mode = "gather-and-run"

WrittenMetricRows(c) ==
    SelectSeq(activity_written[c].rows,
              LAMBDA row : row["standard_type"] \in {Str("ED50"), Str("TD50")})

\* the loaded cell is the written cell as the CSV reader types it
ReloadedAs(written, loaded) ==
    /\ IsNull(written) => loaded = NaN
    /\ written.k = "str" =>
          /\ (loaded = NaN) <=> (written.s \in NaValues)
          /\ loaded # NaN =>
                \/ loaded = written
                \/ loaded.k = "num" /\ Decimal(loaded.n) = written.s

C10_ReloadedRowsAsRead ==
    GatheredAndLoaded =>
        /\ KeySet(data) = {c \in Names(manifest) : WrittenMetricRows(c) # << >>}
        /\ \A c \in KeySet(data) :
              LET w == WrittenMetricRows(c)
                  l == Lookup(data, c).rows IN
              /\ Lookup(data, c).columns = activity_written[c].columns
              /\ Len(l) = Len(w)
              /\ \A j \in 1..Len(l) :
                    /\ l[j]["standard_type"] = w[j]["standard_type"]
                    /\ \A column \in DOMAIN w[j] : ReloadedAs(w[j][column], l[j][column])

\* a written table with all three kinds of row is reloaded: a row is filtered
\* out, a text cell comes back as a number, a "NA" cell comes back null
C10_Witness ==
    /\ GatheredAndLoaded
    /\ \E c \in KeySet(data) :
          /\ Len(activity_written[c].rows) > Len(Lookup(data, c).rows)
          /\ \E j \in 1..Len(Lookup(data, c).rows) :
                /\ WrittenMetricRows(c)[j]["standard_value"] = Str("5")
                /\ Lookup(data, c).rows[j]["standard_value"] = Num(5)
                /\ WrittenMetricRows(c)[j]["target_pref_name"] = Str("NA")
                /\ Lookup(data, c).rows[j]["target_pref_name"] = NaN

\* C10 as stated: the loaded table is the ED50/TD50 rows of the written
\* table, with the same values in the same order
C10_AsStated ==
    GatheredAndLoaded =>
        \A c \in KeySet(data) : Lookup(data, c).rows = WrittenMetricRows(c)


-----------------------------------------------------------------------------
(* C11: the gather pass takes the compounds of the compound file one at a  *)
(* time in file order.  Whatever the two fetches of a compound meet, the   *)
(* iteration for it ends with the loop at the next row (a failing fetch    *)
(* does not stop the batch, and every later compound is reached), and it   *)
(* changes no file other than drug_info/C_info.csv and                     *)
(* data/C_activity_data.csv of its own compound C.                         *)

Gathering == pc = "gather" /\ index <= Len(manifest)

\* the files of every compound other than name are as they were
OthersFilesKept(name) ==
    \A other \in NamePool \ {name} :
        /\ info_files'[other] = info_files[other]
        /\ data_files'[other] = data_files[other]

\* an info file as a gather step writes it after fetch_pubchem_data failed
\* (every field null), and after it succeeded (the Drug field is the name)
InfoOfFailedFetch == to_csv(InfoFrame(clean_data(EmptyDict, << >>).drug_info))
InfoNames(file, name) ==
    file.state = "csv" /\ file.lines # << >> /\ file.lines[1]["Drug"] = Joined(name)

C11_GatherStepByStep ==
    /\ [][Gathering =>
             /\ pc' = "gather"
             /\ index' = index + 1
             /\ OthersFilesKept(manifest[index])]_vars
    /\ \A k \in 1..MaxCompounds :
          (pc = "gather" /\ k <= Len(manifest)) ~> (index > k)

\* both fetches of the first compound failed, the batch went on to the
\* second compound, whose two files are written, and the first compound's
\* info file is still the one its own step wrote
C11_Witness ==
    /\ pc # "gather"
    /\ Len(manifest) = 2
    /\ manifest[1] # manifest[2]
    /\ index = 3
    /\ info_files[manifest[1]] = InfoOfFailedFetch
    /\ data_files[manifest[1]] = Absent
    /\ InfoNames(info_files[manifest[2]], manifest[2])
    /\ data_files[manifest[2]] = to_csv(activity_written[manifest[2]])
    /\ Exists(data_files[manifest[2]])


-----------------------------------------------------------------------------
(* C12 (as amended): for a bioactivity document that is retrieved and      *)
(* parses, and in which every activity element has its activity_id,        *)
(* assay_description and standard_type, fetch_chembl_data returns one      *)
(* record per activity element, in document order; a record has all seven  *)
(* keys, the text of each sub-element present and None for each of         *)
(* standard_value, standard_units, target_organism and target_pref_name    *)
(* that is absent, whatever the other elements lack of these four.  If     *)
(* some activity element lacks one of the three required sub-elements,     *)
(* the result is the empty list: no element of the document gets a record. *)

Retrieved == Fetched("chembl") /\ fetch_in.chembl.kind = "ok"

HasRequired(activity) ==
    \A tag \in {"activity_id", "assay_description", "standard_type"} : tag \in DOMAIN activity

\* the record of an activity element: seven keys, the text of what is
\* present, None for what is absent
RecordOf(record, activity) ==
    /\ DOMAIN record = ColumnSet
    /\ \A tag \in ColumnSet :
          IF tag \in DOMAIN activity THEN record[tag] = activity[tag]
          ELSE record[tag] = None

OneRecordPerElement(doc, records) ==
    /\ Len(records) = Len(doc)
    /\ \A j \in 1..Len(doc) : RecordOf(records[j], doc[j])

C12_OneRecordPerActivity ==
    Retrieved =>
        LET doc == fetch_in.chembl.doc IN
        /\ fetch_out.chembl.raised = ""
        /\ IF \A j \in 1..Len(doc) : HasRequired(doc[j])
           THEN OneRecordPerElement(doc, fetch_out.chembl.value)
           ELSE fetch_out.chembl.value = << >>

\* a document of two elements that lack different optional sub-elements
\* has given two records, each with None for what its element lacks
C12_Witness ==
    /\ Retrieved
    /\ fetch_in.chembl.doc = <<Td50Activity, Ic50Activity>>
    /\ Len(fetch_out.chembl.value) = 2
    /\ fetch_out.chembl.value[1]["target_organism"] = None
    /\ fetch_out.chembl.value[1]["standard_value"] = Str("50")
    /\ fetch_out.chembl.value[2]["standard_value"] = None
    /\ fetch_out.chembl.value[2]["target_organism"] = Str("Mus musculus")

\* C12 as stated: every document that is retrieved and parses gives one
\* record per activity element
C12_AsStated ==
    Retrieved => OneRecordPerElement(fetch_in.chembl.doc, fetch_out.chembl.value)


-----------------------------------------------------------------------------
(* C13: while the dashboard is served, every key that reaches update_graph *)
(* is a key of the figure mapping, so figures[selected_compound] never     *)
(* raises: the server is started only with a non-empty figure mapping, the *)
(* dropdown's default and each of its options are keys of the mapping, the *)
(* home page always has a selection (it cannot be cleared), and neither    *)
(* the mapping nor the dropdown changes once the server is started.        *)

KeysOffered == {dropdown.options[j].value : j \in 1..Len(dropdown.options)}

C13_SelectedKeyIsAFigure ==
    /\ [](Serving =>
            /\ figures # << >>
            /\ dropdown.value \in KeySet(figures)
            /\ KeysOffered \subseteq KeySet(figures)
            /\ page = "home_layout" =>
                  /\ selected # NoSelection
                  /\ selected \in KeySet(figures)
                  /\ graph = Returned(Lookup(figures, selected))
                  /\ drug_info.raised = "")
    /\ [][Serving => UNCHANGED <<figures, dropdown>>]_vars

\* on the home page of a dashboard with four figures, an option other than
\* the default, a distribution key, has been selected and drawn
C13_Witness ==
    /\ Serving
    /\ page = "home_layout"
    /\ organism_data = Unset
    /\ selected \in KeysOffered
    /\ selected # dropdown.value
    /\ ~IsEdTdKey(selected)
    /\ Len(figures) = 4
    /\ graph = Returned(Lookup(figures, selected))

=============================================================================
